---------------------------- MODULE Spec2Model ----------------------------
(***************************************************************************)
(* En-Route backend (src/en-route/backend/server.js): the real-time        *)
(* dispatch coordinator.  The in-memory maps driverPositions and           *)
(* activeOrders, the socket handlers that update them, and the HTTP        *)
(* handlers that drive the durable order, payment and wallet records.      *)
(*                                                                         *)
(* Every handler is cut at its awaits: the code between two awaits runs    *)
(* without interleaving (one JavaScript thread), and a durable-store call  *)
(* takes effect in the step that resumes the handler.                      *)
(***************************************************************************)
EXTENDS Integers, Sequences, FiniteSets, TLC

\* ------------------------------------------------------------------ bounds
\* Sockets ever opened (socket.io gives each connection a fresh id).
MaxConns == 2
\* Location handlers suspended on the sampled durable write at one time.
MaxPending == 1

\* ------------------------------------------------------------- identities
Drivers == {"d1", "d2"}
Clients == {"c1"}
Admins == {"adm"}
Users == Drivers \cup Clients \cup Admins
OrderIds == {"o1", "o2"}
Sockets == 1..MaxConns

\* JavaScript null for a socket id (clientSocketId: null).
NoSocket == 0
\* A numeric field missing from an event's payload (undefined).
Undef == -1

VARIABLES
    connected,        \* socket ids whose connection is open
    nextSocket,       \* number of sockets opened so far
    owner,            \* history: the user whose app opened each socket (the
                      \* server does not learn it: no handshake is checked)
    driverPositions,  \* Map driverId -> position object
    activeOrders,     \* Map orderId -> session, in insertion order
    locPending,       \* driver:location handlers suspended on the durable write
    chatPending,      \* chat:message handlers suspended on the load or the save
    userLocation,     \* durable User.location of each driver
    lastReport,       \* history: the last driver:location event of each driver
    lastRequest,      \* history: per order id, the socket of the last order:track
                      \* and of the last driver:accept_order handled
    emitted,          \* socket events emitted by the last step
    orders,           \* durable Order collection: _id -> document
    driverStats,      \* durable User.driverProfile.totalTrips / totalKm
    transactions,     \* durable WalletTransaction collection: _id -> document
    balance,          \* durable User.driverProfile.wallet.balance
    credited,         \* history: times the balance was incremented for a transaction
    reqs,             \* HTTP handlers suspended on an await
    response          \* the HTTP response sent by the last step, if any

socketVars == <<connected, nextSocket, owner, driverPositions, activeOrders, locPending,
                chatPending,
                userLocation, lastReport, lastRequest>>
storeVars == <<orders, driverStats, transactions, balance, credited, reqs, response>>
vars == <<socketVars, emitted, storeVars>>

\* ------------------------------------------------------------ Map helpers
MapSet(m, k, v) == [x \in DOMAIN m \cup {k} |-> IF x = k THEN v ELSE m[x]]

\* Position in the insertion order of the session with this order id, 0 if none.
SessionIndex(sessions, orderId) ==
    IF \E i \in 1..Len(sessions) : sessions[i].orderId = orderId
      THEN CHOOSE i \in 1..Len(sessions) : sessions[i].orderId = orderId
      ELSE 0

\* Map.set on activeOrders: an existing key keeps its place, a new key is appended.
SessionSet(sessions, orderId, session) ==
    IF SessionIndex(sessions, orderId) = 0
      THEN Append(sessions, session)
      ELSE [sessions EXCEPT ![SessionIndex(sessions, orderId)] = session]

\* [...activeOrders.values()].find(o => o.driverId === driverId): index, 0 if none.
FindDriverSession(sessions, driverId) ==
    IF \E i \in 1..Len(sessions) : sessions[i].driverId = driverId
      THEN CHOOSE i \in 1..Len(sessions) :
             /\ sessions[i].driverId = driverId
             /\ \A j \in 1..(i - 1) : sessions[j].driverId # driverId
      ELSE 0

\* ------------------------------------------------------- driver:location
\* Payloads of driver:location events: a full one that reports isOnline false,
\* and one with speed, heading and isOnline missing and a battery of 0.
Reports ==
    { [lat |-> 1, lon |-> 1, speed |-> 5, heading |-> 9, battery |-> 50,
       isOnline |-> "false"],
      [lat |-> 2, lon |-> 2, speed |-> Undef, heading |-> Undef, battery |-> 0,
       isOnline |-> "undefined"] }

\* The drivers whose reports are explored on the sampled-write path as well
\* (Math.random() < 0.1); the other drivers' reports take the unsampled path.
SampledDrivers == {"d1"}

DefaultSpeed == 0
DefaultHeading == 0
DefaultBattery == 100

\* x || d on a number: undefined and 0 are falsy.
OrDefault(x, d) == IF x = Undef \/ x = 0 THEN d ELSE x

\* A mutant: an earlier entry's battery survives when the report's is falsy.
MergedPosition(data, socketId, old) ==
    [lat |-> data.lat, lon |-> data.lon,
     speed |-> OrDefault(data.speed, DefaultSpeed),
     heading |-> OrDefault(data.heading, DefaultHeading),
     battery |-> IF data.battery = Undef \/ data.battery = 0
                   THEN (IF old = << >> THEN DefaultBattery ELSE old.battery)
                   ELSE data.battery,
     isOnline |-> data.isOnline # "false",
     socketId |-> socketId]

\* The position object built from the payload (lastUpdate, a clock reading, is
\* left out).  old is the entry being replaced, << >> if none: it is not read.
NewPosition(data, socketId, old) ==
    [lat |-> data.lat, lon |-> data.lon,
     speed |-> OrDefault(data.speed, DefaultSpeed),
     heading |-> OrDefault(data.heading, DefaultHeading),
     battery |-> OrDefault(data.battery, DefaultBattery),
     isOnline |-> data.isOnline # "false",
     socketId |-> socketId]

OldEntry(d) == IF d \in DOMAIN driverPositions THEN driverPositions[d] ELSE << >>

\* What the handler emits once it is past the sampled write: the broadcast to
\* every other socket and, if a session of this driver exists, the targeted
\* event to that session's clientSocketId (null included).  An event's scope
\* is "all" (io.emit), "others" (socket.broadcast.emit, all but socketId) or
\* "socket" (io.to(socketId).emit).
LocationEmits(s, d, data, position) ==
    { [event |-> "drivers:update", scope |-> "others", socketId |-> s,
       driverId |-> d, orderId |-> "", position |-> position] }
    \cup
    ( IF FindDriverSession(activeOrders, d) = 0 THEN {}
      ELSE LET session == activeOrders[FindDriverSession(activeOrders, d)] IN
        { [event |-> "order:driver_location", scope |-> "socket",
           socketId |-> session.clientSocketId,
           driverId |-> d, orderId |-> session.orderId,
           position |-> [lat |-> data.lat, lon |-> data.lon,
                         speed |-> data.speed, heading |-> data.heading]] } )

\* The handler up to its first await: the entry is replaced, then either the
\* sampled durable write is issued (Math.random() < 0.1) and the handler is
\* suspended, or the handler runs to its end.
DriverLocation(s, d, data, sampled) ==
    /\ s \in connected
    /\ LET position == NewPosition(data, s, OldEntry(d))
           \* a suspended handler of this driver no longer holds the Map's object
           others == { [p EXCEPT !.inMap = IF p.driverId = d THEN FALSE ELSE p.inMap]
                         : p \in locPending }
       IN /\ driverPositions' = MapSet(driverPositions, d, position)
          /\ lastReport' = MapSet(lastReport, d, [data |-> data, socketId |-> s])
          /\ IF sampled
               THEN /\ Cardinality(locPending) < MaxPending
                    /\ locPending' = others \cup
                         { [socketId |-> s, driverId |-> d, data |-> data,
                            position |-> position, inMap |-> TRUE] }
                    /\ emitted' = {}
               ELSE /\ locPending' = others
                    /\ emitted' = LocationEmits(s, d, data, position)
    /\ UNCHANGED <<connected, nextSocket, activeOrders, userLocation, lastRequest>>
    /\ UNCHANGED <<owner, chatPending, storeVars>>

\* User.findByIdAndUpdate returns: the write is applied and the handler emits;
\* or it throws, and the rest of the handler does not run (no try/catch).
LocationWriteDone(p, ok) ==
    /\ p \in locPending
    /\ locPending' = locPending \ {p}
    /\ IF ok
         THEN /\ userLocation' = MapSet(userLocation, p.driverId,
                                        [lat |-> p.data.lat, lon |-> p.data.lon])
              /\ emitted' = LocationEmits(p.socketId, p.driverId, p.data, p.position)
         ELSE /\ emitted' = {}
              /\ UNCHANGED userLocation
    /\ UNCHANGED <<connected, nextSocket, driverPositions, activeOrders, lastReport,
                   lastRequest>>
    /\ UNCHANGED <<owner, chatPending, storeVars>>

\* ------------------------------------------------------------ connection
\* io.on('connection'): user u's app opens a socket, which gets a fresh id.
Connect(u) ==
    /\ nextSocket < MaxConns
    /\ nextSocket' = nextSocket + 1
    /\ connected' = connected \cup {nextSocket + 1}
    /\ owner' = MapSet(owner, nextSocket + 1, u)
    /\ emitted' = {}
    /\ UNCHANGED <<driverPositions, activeOrders, locPending, userLocation, lastReport,
                   lastRequest>>
    /\ UNCHANGED <<chatPending, storeVars>>

\* A mutant: the disconnect leaves every entry as it is.
KeptOnline(pos, s) == pos

\* A mutant: the disconnect marks every entry offline, whatever its socket.
OfflineAll(pos, s) == [pos EXCEPT !.isOnline = FALSE]

\* The loop body of the disconnect handler on one entry.
MarkOffline(pos, s) == IF pos.socketId = s THEN [pos EXCEPT !.isOnline = FALSE] ELSE pos

\* A mutant: the entries of the closed socket are removed.
WithoutSocket(positions, s) ==
    [d \in { x \in DOMAIN positions : positions[x].socketId # s } |-> positions[d]]

\* for (const [driverId, pos] of driverPositions.entries()): the entries of
\* the closed socket are marked offline and set again.
AfterDisconnect(positions, s) ==
    [d \in DOMAIN positions |-> MarkOffline(positions[d], s)]

Disconnect(s) ==
    /\ s \in connected
    /\ connected' = connected \ {s}
    /\ driverPositions' = AfterDisconnect(driverPositions, s)
    \* pos.isOnline = false writes the object a suspended handler may still hold
    /\ locPending' = { IF p.inMap THEN [p EXCEPT !.position = MarkOffline(p.position, s)] ELSE p
                         : p \in locPending }
    /\ emitted' = { [event |-> "drivers:update", scope |-> "all", socketId |-> NoSocket,
                     driverId |-> d, orderId |-> "",
                     position |-> MarkOffline(driverPositions[d], s)]
                      : d \in { x \in DOMAIN driverPositions : driverPositions[x].socketId = s } }
    /\ UNCHANGED <<nextSocket, activeOrders, userLocation, lastReport, lastRequest>>
    /\ UNCHANGED <<owner, chatPending, storeVars>>

\* --------------------------------------------------------------- sessions
\* The object driver:accept_order stores under the order id.
AcceptedSession(orderId, driverId, s) ==
    [orderId |-> orderId, driverId |-> driverId, driverSocketId |-> s,
     clientSocketId |-> NoSocket, status |-> "accepted"]

\* order:track: the requesting socket becomes the client handle of a known
\* session; for an unknown order id nothing is stored (clientId is not read).
OrderTrack(s, orderId, clientId) ==
    /\ s \in connected
    /\ activeOrders' =
         IF SessionIndex(activeOrders, orderId) # 0
           THEN [activeOrders EXCEPT ![SessionIndex(activeOrders, orderId)].clientSocketId = s]
           ELSE activeOrders
    /\ lastRequest' = [lastRequest EXCEPT ![orderId].track = s]
    /\ emitted' = {}
    /\ UNCHANGED <<connected, nextSocket, driverPositions, locPending, userLocation, lastReport>>
    /\ UNCHANGED <<owner, chatPending, storeVars>>

\* driver:accept_order: the session of the order id is replaced by a new object.
DriverAcceptOrder(s, orderId, driverId) ==
    /\ s \in connected
    /\ activeOrders' = SessionSet(activeOrders, orderId, AcceptedSession(orderId, driverId, s))
    /\ lastRequest' = [lastRequest EXCEPT ![orderId].accept = s]
    /\ emitted' = {}
    /\ UNCHANGED <<connected, nextSocket, driverPositions, locPending, userLocation, lastReport>>
    /\ UNCHANGED <<owner, chatPending, storeVars>>

\* ----------------------------------------------------------- chat:message
\* chat:message handlers suspended on an await at one time.
MaxChats == 1
\* Messages in the durable log of one order.
MaxMessages == 2

\* orderSchema.messages.senderType
SenderTypeEnum == {"client", "driver", "system", "bot"}

\* The entry pushed on order.messages (type and timestamp are left out).
MessageEntry(data) ==
    [senderId |-> data.senderId, senderType |-> data.senderType, message |-> data.message]

\* A mutant: the message goes to the handles of both roles.
BothHandles(session, senderType) == {session.driverSocketId, session.clientSocketId}

\* senderType === 'client' ? activeOrder.driverSocketId : activeOrder.clientSocketId
TargetSocket(session, senderType) ==
    { IF senderType = "client" THEN session.driverSocketId ELSE session.clientSocketId }

\* The end of the handler: the session is looked up now, and the message goes
\* to the target socket if the session exists and the target is not null.
ChatEmits(data) ==
    IF SessionIndex(activeOrders, data.orderId) = 0 THEN {}
    ELSE { [event |-> "chat:new_message", scope |-> "socket", socketId |-> t,
            orderId |-> data.orderId, senderId |-> data.senderId,
            senderType |-> data.senderType, message |-> data.message]
             : t \in TargetSocket(activeOrders[SessionIndex(activeOrders, data.orderId)],
                                  data.senderType) \ {NoSocket} }

\* The event arrives: the handler issues Order.findById and is suspended.
\* A mutant: the save writes the whole array of the document it loaded.
SavedWhole(stored, loaded, entry) == Append(loaded, entry)

\* order.messages.push(...) and order.save(): the entry is pushed on the
\* stored array ($push), whatever the array was when the document was loaded.
PushSaved(stored, loaded, entry) == Append(stored, entry)

\* A message is taken in while fewer than n handlers are suspended in
\* chat:message; suspended handlers are told apart by their payload.
Chatting(n, data) ==
    /\ Cardinality(chatPending) < n
    /\ \A p \in chatPending : p.data # data

ChatMessage(s, data) ==
    /\ s \in connected
    /\ chatPending' = chatPending \cup
                        {[socketId |-> s, data |-> data, pc |-> "find", log |-> << >>]}
    /\ emitted' = {}
    /\ UNCHANGED <<connected, nextSocket, owner, driverPositions, activeOrders, locPending,
                   userLocation, lastReport, lastRequest>>
    /\ UNCHANGED storeVars

\* Order.findById returns: an order, whose log gets the entry and is saved;
\* or null, and the handler goes straight to the delivery; or it throws, and
\* the rest of the handler does not run (no try/catch).
ChatFound(p, ok) ==
    /\ p \in chatPending /\ p.pc = "find"
    /\ IF ~ok
         THEN /\ chatPending' = chatPending \ {p}
              /\ emitted' = {}
         ELSE IF p.data.orderId \in DOMAIN orders
         THEN /\ chatPending' = (chatPending \ {p}) \cup
                                 {[p EXCEPT !.pc = "save", !.log = orders[p.data.orderId].messages]}
              /\ emitted' = {}
         ELSE /\ chatPending' = chatPending \ {p}
              /\ emitted' = ChatEmits(p.data)
    /\ UNCHANGED <<connected, nextSocket, owner, driverPositions, activeOrders, locPending,
                   userLocation, lastReport, lastRequest>>
    /\ UNCHANGED storeVars

\* order.save() returns: the entry is pushed on the stored log if the schema
\* accepts it, and the message is delivered; or the save throws, and the rest
\* of the handler does not run.
ChatSaved(p, ok) ==
    /\ p \in chatPending /\ p.pc = "save"
    /\ chatPending' = chatPending \ {p}
    /\ IF ok /\ p.data.senderType \in SenderTypeEnum
         THEN /\ Len(orders[p.data.orderId].messages) < MaxMessages
              /\ orders' = [orders EXCEPT ![p.data.orderId].messages =
                                            PushSaved(@, p.log, MessageEntry(p.data))]
              /\ emitted' = ChatEmits(p.data)
         ELSE /\ emitted' = {}
              /\ UNCHANGED orders
    /\ UNCHANGED <<connected, nextSocket, owner, driverPositions, activeOrders, locPending,
                   userLocation, lastReport, lastRequest>>
    /\ UNCHANGED <<driverStats, transactions, balance, credited, reqs, response>>

\* ---------------------------------------------------------- durable store
\* HTTP handlers suspended on an await at one time.
MaxInflight == 1
\* Orders ever created.
MaxOrders == 1
\* Completions that reach the driver's statistics (caps totalTrips).
MaxTrips == 2
\* Wallet transactions ever created.
MaxTxs == 1
\* Balance increments of one user, applied or in flight (caps the balance).
MaxCredits == 2

\* Fresh ObjectIds, in the order they are handed out.
OrderIdSeq == <<"o1", "o2", "o3">>
TxIdSeq == <<"t1", "t2">>
TxIds == {"t1", "t2"}

NoResponse == [op |-> "none", caller |-> "", id |-> "", code |-> 0]
Response(op, caller, id, code) == [op |-> op, caller |-> caller, id |-> id, code |-> code]

\* req.user.type, as authMiddleware loads it.
\* A mutant: every user passes for an administrator.
EveryoneAdmin(u) == "admin"

UserType(u) == IF u \in Admins THEN "admin" ELSE IF u \in Drivers THEN "driver" ELSE "client"

StatusEnum == {"pending", "accepted", "driver_coming", "loading", "in_transit",
               "unloading", "completed", "cancelled", "disputed"}
PaymentStatusEnum == {"pending", "proof_submitted", "confirmed", "paid_to_driver", "refunded"}

\* A handler parked at an await: the operation, the caller, the document id,
\* where it resumes, its in-memory document, the paths it has modified (save
\* writes only those) and a value read before the await.
Req(op, caller, id, pc, doc, mod, arg) ==
    [op |-> op, caller |-> caller, id |-> id, pc |-> pc, doc |-> doc, mod |-> mod, arg |-> arg]

\* document.save() of a loaded document: the modified paths are $set.
ApplySave(stored, doc, mod) == [f \in DOMAIN stored |-> IF f \in mod THEN doc[f] ELSE stored[f]]

\* ------------------------------------------------------------ POST /api/orders
\* The vehicles of the store (their CRUD is outside the model): one available
\* vehicle of driver d1, one unavailable vehicle of driver d2.
DefaultMinimumPrice == 5000
DefaultPricePerKm == 500
CommissionPercent == 15

Vehicles == {"v1", "v2"}

\* The prices in XOF a vehicle's driver submitted when registering it; v3 was
\* registered with no minimum and v4 with no charge per km.
RegisteredPrices(v) ==
    IF v = "v3" THEN [minimumPrice |-> 0, pricePerKm |-> 500]
    ELSE IF v = "v4" THEN [minimumPrice |-> 5000, pricePerKm |-> 0]
    ELSE [minimumPrice |-> 5000, pricePerKm |-> 500]

\* POST /api/vehicles: parseFloat(pricePerKm) || null and
\* parseFloat(minimumPrice) || 5000.
VehiclePricing(prices) ==
    [ pricePerKm |-> OrDefault(prices.pricePerKm, Undef),
      minimumPrice |-> OrDefault(prices.minimumPrice, DefaultMinimumPrice) ]

\* The stored vehicles: v2 is unavailable and belongs to d2, the others are
\* available vehicles of d1.
Vehicle(v) ==
    [ driverId |-> IF v = "v2" THEN "d2" ELSE "d1",
      isAvailable |-> v # "v2",
      minimumPrice |-> VehiclePricing(RegisteredPrices(v)).minimumPrice,
      pricePerKm |-> VehiclePricing(RegisteredPrices(v)).pricePerKm ]

\* Units: a distance is in 1/100 km and an amount of money in 1/100 XOF, so
\* that the code's fractional values are exact; a vehicle's prices are in XOF.
\* calculateDistance on the model's places, which lie on one meridian with
\* their latitude given in 1/100 km of arc: the haversine distance of two of
\* them is the difference of their latitudes.
CalculateDistance(lat1, lon1, lat2, lon2) == IF lat1 >= lat2 THEN lat1 - lat2 ELSE lat2 - lat1

\* pickup.lat && dropoff?.lat: a missing latitude and latitude 0 are falsy.
Located(pickup, dropoff) ==
    /\ pickup.lat # Undef /\ pickup.lat # 0
    /\ dropoff.lat # Undef /\ dropoff.lat # 0

Max(a, b) == IF a >= b THEN a ELSE b

OrderAmount(v, serviceType, pickup, dropoff) ==
    LET minimum == OrDefault(Vehicle(v).minimumPrice, DefaultMinimumPrice) * 100 IN
      IF serviceType = "transport" /\ Located(pickup, dropoff)
        THEN Max(minimum,
                 CalculateDistance(pickup.lat, pickup.lon, dropoff.lat, dropoff.lon)
                   * OrDefault(Vehicle(v).pricePerKm, DefaultPricePerKm))
        ELSE minimum

\* Math.round(amount * 0.15): a whole number of XOF, halves rounded up.
PlatformFee(amount) == ((amount * CommissionPercent + 5000) \div 10000) * 100

\* A mutant: the driver's share rounded on its own, as 85% of the amount.
RoundedShare(amount, platformFee) == ((amount * (100 - CommissionPercent) + 5000) \div 10000) * 100

\* amount - platformFee.
DriverShare(amount, platformFee) == amount - platformFee

\* new Order({...}) with the schema's defaults.  A Date is TRUE once set.
NewOrder(u, v, serviceType, pickup, dropoff) ==
    LET amount == OrderAmount(v, serviceType, pickup, dropoff) IN
    [ orderNumber |-> 0,
      clientId |-> u,
      driverId |-> Vehicle(v).driverId,
      vehicleId |-> v,
      serviceType |-> serviceType,
      pickup |-> pickup,
      dropoff |-> dropoff,
      status |-> "pending",
      acceptedAt |-> FALSE, startedAt |-> FALSE, completedAt |-> FALSE,
      cancelledAt |-> FALSE, cancelReason |-> "",
      payStatus |-> "pending",
      amount |-> amount,
      platformFee |-> PlatformFee(amount),
      driverShare |-> DriverShare(amount, PlatformFee(amount)),
      proofImage |-> "", proofTransactionId |-> "", proofSubmittedAt |-> FALSE,
      payConfirmedAt |-> FALSE, payConfirmedBy |-> "",
      estimatedKm |-> IF Located(pickup, dropoff)
                        THEN CalculateDistance(pickup.lat, pickup.lon, dropoff.lat, dropoff.lon)
                        ELSE Undef,
      actualKm |-> Undef,
      tracking |-> << >>,
      messages |-> << >> ]

Creating == { r \in reqs : r.op = "create" }

\* Up to order.save(): the vehicle check, the price, the new document.
CreateOrderBegin(u, v, serviceType, pickup, dropoff) ==
    /\ IF ~Vehicle(v).isAvailable
         THEN /\ response' = Response("create", u, "", 400)
              /\ UNCHANGED reqs
         ELSE /\ reqs' = reqs \cup
                   { Req("create", u, "", "count", NewOrder(u, v, serviceType, pickup, dropoff),
                         {}, 0) }
              /\ response' = NoResponse
    /\ emitted' = {}
    /\ UNCHANGED <<socketVars, orders, driverStats, transactions, balance, credited>>

\* orderSchema.pre('save'): countDocuments() returns, the number is derived.
CreateOrderCount(r) ==
    /\ r \in reqs /\ r.op = "create" /\ r.pc = "count"
    /\ reqs' = (reqs \ {r}) \cup
         { [r EXCEPT !.pc = "insert",
                     !.doc.orderNumber = IF r.doc.orderNumber = 0
                                           THEN Cardinality(DOMAIN orders) + 1
                                           ELSE r.doc.orderNumber] }
    /\ response' = NoResponse
    /\ emitted' = {}
    /\ UNCHANGED <<socketVars, orders, driverStats, transactions, balance, credited>>

\* The insert returns: stored under a fresh id unless the store fails or the
\* unique index on orderNumber rejects it; then the driver's socket, if the
\* Position Registry knows one, is sent order:new.
CreateOrderInsert(r, ok) ==
    /\ r \in reqs /\ r.op = "create" /\ r.pc = "insert"
    /\ reqs' = reqs \ {r}
    /\ IF ok /\ \A o \in DOMAIN orders : orders[o].orderNumber # r.doc.orderNumber
         THEN LET id == OrderIdSeq[Cardinality(DOMAIN orders) + 1] IN
              /\ orders' = MapSet(orders, id, r.doc)
              /\ emitted' =
                   IF r.doc.driverId \in DOMAIN driverPositions
                     THEN { [event |-> "order:new", scope |-> "socket",
                             socketId |-> driverPositions[r.doc.driverId].socketId,
                             orderId |-> id, orderNumber |-> r.doc.orderNumber,
                             amount |-> r.doc.amount, driverShare |-> r.doc.driverShare] }
                     ELSE {}
              /\ response' = Response("create", r.caller, id, 201)
         ELSE /\ response' = Response("create", r.caller, "", 500)
              /\ emitted' = {}
              /\ UNCHANGED orders
    /\ UNCHANGED <<socketVars, driverStats, transactions, balance, credited>>

\* ------------------------------------------------ PUT /api/orders/:id/respond
\* io.emit(`order:${order._id}:status`, { status })
StatusEvent(o, status) ==
    [event |-> "order:status", scope |-> "all", socketId |-> NoSocket,
     orderId |-> o, status |-> status]

\* A mutant: any driver passes for the order's driver.
IsSomeDriver(order, u) == u \in Drivers

\* order.driverId.toString() === req.user._id.toString()
IsAssignedDriver(order, u) == order.driverId = u

RespondBegin(u, o, accept) ==
    /\ IF o \notin DOMAIN orders \/ ~IsAssignedDriver(orders[o], u)
         THEN /\ response' = Response("respond", u, o, 403)
              /\ emitted' = {}
              /\ UNCHANGED reqs
         ELSE /\ response' = NoResponse
              /\ IF accept
                   THEN /\ reqs' = reqs \cup
                             { Req("respond", u, o, "save",
                                   [orders[o] EXCEPT !.status = "accepted", !.acceptedAt = TRUE],
                                   (IF orders[o].status # "accepted" THEN {"status"} ELSE {})
                                     \cup {"acceptedAt"}, 0) }
                        /\ emitted' = { StatusEvent(o, "accepted") }
                   ELSE /\ reqs' = reqs \cup
                             { Req("respond", u, o, "save",
                                   [orders[o] EXCEPT !.status = "cancelled", !.cancelledAt = TRUE,
                                                     !.cancelReason = "Driver refused"],
                                   (IF orders[o].status # "cancelled" THEN {"status"} ELSE {})
                                     \cup {"cancelledAt"}
                                     \cup (IF orders[o].cancelReason # "Driver refused"
                                             THEN {"cancelReason"} ELSE {}), 0) }
                        /\ emitted' = {}
    /\ UNCHANGED <<socketVars, orders, driverStats, transactions, balance, credited>>

RespondSave(r, ok) ==
    /\ r \in reqs /\ r.op = "respond" /\ r.pc = "save"
    /\ reqs' = reqs \ {r}
    /\ IF ok
         THEN /\ orders' = [orders EXCEPT ![r.id] = ApplySave(@, r.doc, r.mod)]
              /\ response' = Response("respond", r.caller, r.id, 200)
         ELSE /\ response' = Response("respond", r.caller, r.id, 500)
              /\ UNCHANGED orders
    /\ emitted' = {}
    /\ UNCHANGED <<socketVars, driverStats, transactions, balance, credited>>

\* ------------------------------------------------- PUT /api/orders/:id/status
\* Status values a request may carry: the enum's, and one outside it.
RequestedStatuses == StatusEnum \cup {"bogus"}

RECURSIVE TrackedKm(_)
\* The loop over order.tracking: the sum of the consecutive distances.
TrackedKm(tracking) ==
    IF Len(tracking) < 2 THEN 0
    ELSE TrackedKm(SubSeq(tracking, 1, Len(tracking) - 1))
           + CalculateDistance(tracking[Len(tracking) - 1].lat, tracking[Len(tracking) - 1].lon,
                               tracking[Len(tracking)].lat, tracking[Len(tracking)].lon)

\* Points in the tracking sequence of one order.
MaxTrack == 3

\* The places of tracked points: two latitudes 0.45 km apart on the meridian.
TrackPoints == { [lat |-> 100, lon |-> 200], [lat |-> 145, lon |-> 200] }

\* order.tracking of a stored order gets one more point.  No handler of the
\* server writes the sequence: the points come into the store from outside,
\* and the status route reads what it finds there.
StoreTrackingPoint(o, point) ==
    /\ o \in DOMAIN orders
    /\ Len(orders[o].tracking) < MaxTrack
    /\ orders' = [orders EXCEPT ![o].tracking = Append(@, point)]
    /\ emitted' = {}
    /\ response' = NoResponse
    /\ UNCHANGED <<socketVars, driverStats, transactions, balance, credited, reqs>>

\* Math.round(totalKm * 10) / 10, on a distance in 1/100 km.
RoundTenth(c) == ((c + 5) \div 10) * 10

\* The in-memory document after the handler's assignments.
StatusDoc(order, status) ==
    LET d1 == [order EXCEPT !.status = status]
        d2 == IF status = "in_transit" THEN [d1 EXCEPT !.startedAt = TRUE] ELSE d1
        d3 == IF status = "completed" THEN [d2 EXCEPT !.completedAt = TRUE] ELSE d2
    IN IF status = "completed" /\ Len(order.tracking) > 1
         THEN [d3 EXCEPT !.actualKm = RoundTenth(TrackedKm(order.tracking))]
         ELSE d3

StatusMod(order, status) ==
    (IF order.status # status THEN {"status"} ELSE {})
    \cup (IF status = "in_transit" THEN {"startedAt"} ELSE {})
    \cup (IF status = "completed" THEN {"completedAt"} ELSE {})
    \cup (IF StatusDoc(order, status).actualKm # order.actualKm THEN {"actualKm"} ELSE {})

Completing(d) == { r \in reqs : r.op = "status" /\ r.pc = "inc" /\ r.doc.driverId = d }

\* Up to the first await after the load: the checks and the assignments.  A
\* completion goes on to the driver's statistics, anything else to the save.
StatusBegin(u, o, status) ==
    /\ IF o \notin DOMAIN orders
         THEN /\ response' = Response("status", u, o, 404)
              /\ UNCHANGED reqs
         ELSE IF ~IsAssignedDriver(orders[o], u) /\ UserType(u) # "admin"
         THEN /\ response' = Response("status", u, o, 403)
              /\ UNCHANGED reqs
         ELSE /\ reqs' = reqs \cup
                   { Req("status", u, o, IF status = "completed" THEN "inc" ELSE "save",
                         StatusDoc(orders[o], status), StatusMod(orders[o], status), 0) }
              /\ response' = NoResponse
    /\ emitted' = {}
    /\ UNCHANGED <<socketVars, orders, driverStats, transactions, balance, credited>>

\* actual_km || estimated_km || 0
StatsKm(doc) ==
    IF doc.actualKm # Undef /\ doc.actualKm # 0 THEN doc.actualKm
    ELSE IF doc.estimatedKm # Undef /\ doc.estimatedKm # 0 THEN doc.estimatedKm
    ELSE 0

\* User.findByIdAndUpdate($inc) returns, before the order is saved.
StatusInc(r, ok) ==
    /\ r \in reqs /\ r.op = "status" /\ r.pc = "inc"
    /\ IF ok
         THEN /\ driverStats' = [driverStats EXCEPT
                   ![r.doc.driverId].totalTrips = @ + 1,
                   ![r.doc.driverId].totalKm = @ + StatsKm(r.doc)]
              /\ reqs' = (reqs \ {r}) \cup {[r EXCEPT !.pc = "save"]}
              /\ response' = NoResponse
         ELSE /\ reqs' = reqs \ {r}
              /\ response' = Response("status", r.caller, r.id, 500)
              /\ UNCHANGED driverStats
    /\ emitted' = {}
    /\ UNCHANGED <<socketVars, orders, transactions, balance, credited>>

\* order.save() returns: the schema's enum validates the status, the modified
\* paths are written, and the status event goes to every socket.
StatusSave(r, ok) ==
    /\ r \in reqs /\ r.op = "status" /\ r.pc = "save"
    /\ reqs' = reqs \ {r}
    /\ IF ok /\ r.doc.status \in StatusEnum
         THEN /\ orders' = [orders EXCEPT ![r.id] = ApplySave(@, r.doc, r.mod)]
              /\ emitted' = { StatusEvent(r.id, r.doc.status) }
              /\ response' = Response("status", r.caller, r.id, 200)
         ELSE /\ response' = Response("status", r.caller, r.id, 500)
              /\ emitted' = {}
              /\ UNCHANGED orders
    /\ UNCHANGED <<socketVars, driverStats, transactions, balance, credited>>

\* ------------------------------------------ POST /api/orders/:id/payment-proof
\* A mutant: the caller of payment-proof is not compared with the order's client.
AnyCaller(order, u) == TRUE

\* order.clientId.toString() === req.user._id.toString()
IsOrderClient(order, u) == order.clientId = u

\* Up to order.save(): the checks, the upload of the file if there is one (it
\* may fail), the assignments.
PaymentProofBegin(u, o, hasFile, uploadOk, transactionId) ==
    /\ IF o \notin DOMAIN orders
         THEN /\ response' = Response("proof", u, o, 404)
              /\ UNCHANGED reqs
         ELSE IF ~IsOrderClient(orders[o], u)
         THEN /\ response' = Response("proof", u, o, 403)
              /\ UNCHANGED reqs
         ELSE IF hasFile /\ ~uploadOk
         THEN /\ response' = Response("proof", u, o, 500)
              /\ UNCHANGED reqs
         ELSE LET url == IF hasFile THEN "proof-url" ELSE ""
                  doc == [orders[o] EXCEPT !.proofImage = url,
                                           !.proofTransactionId = transactionId,
                                           !.proofSubmittedAt = TRUE,
                                           !.payStatus = "proof_submitted"]
              IN /\ reqs' = reqs \cup
                      { Req("proof", u, o, "save", doc,
                            { f \in {"proofImage", "proofTransactionId", "payStatus"} :
                                doc[f] # orders[o][f] } \cup {"proofSubmittedAt"}, 0) }
                 /\ response' = NoResponse
    /\ emitted' = {}
    /\ UNCHANGED <<socketVars, orders, driverStats, transactions, balance, credited>>

PaymentProofSave(r, ok) ==
    /\ r \in reqs /\ r.op = "proof" /\ r.pc = "save"
    /\ reqs' = reqs \ {r}
    /\ IF ok
         THEN /\ orders' = [orders EXCEPT ![r.id] = ApplySave(@, r.doc, r.mod)]
              /\ response' = Response("proof", r.caller, r.id, 200)
         ELSE /\ response' = Response("proof", r.caller, r.id, 500)
              /\ UNCHANGED orders
    /\ emitted' = {}
    /\ UNCHANGED <<socketVars, driverStats, transactions, balance, credited>>

\* ------------------------------------ POST /api/admin/confirm-payment/:orderId
ConfirmPaymentBegin(u, o) ==
    /\ IF UserType(u) # "admin"
         THEN /\ response' = Response("confirm-payment", u, o, 403)
              /\ UNCHANGED reqs
         ELSE IF o \notin DOMAIN orders
         THEN /\ response' = Response("confirm-payment", u, o, 404)
              /\ UNCHANGED reqs
         ELSE LET doc == [orders[o] EXCEPT !.payStatus = "confirmed",
                                           !.payConfirmedAt = TRUE,
                                           !.payConfirmedBy = u]
              IN /\ reqs' = reqs \cup
                      { Req("confirm-payment", u, o, "save", doc,
                            { f \in {"payStatus", "payConfirmedBy"} : doc[f] # orders[o][f] }
                              \cup {"payConfirmedAt"}, 0) }
                 /\ response' = NoResponse
    /\ emitted' = {}
    /\ UNCHANGED <<socketVars, orders, driverStats, transactions, balance, credited>>

ConfirmPaymentSave(r, ok) ==
    /\ r \in reqs /\ r.op = "confirm-payment" /\ r.pc = "save"
    /\ reqs' = reqs \ {r}
    /\ IF ok
         THEN /\ orders' = [orders EXCEPT ![r.id] = ApplySave(@, r.doc, r.mod)]
              /\ emitted' = { [event |-> "order:payment", scope |-> "all", socketId |-> NoSocket,
                               orderId |-> r.id, status |-> "confirmed"] }
              /\ response' = Response("confirm-payment", r.caller, r.id, 200)
         ELSE /\ response' = Response("confirm-payment", r.caller, r.id, 500)
              /\ emitted' = {}
              /\ UNCHANGED orders
    /\ UNCHANGED <<socketVars, driverStats, transactions, balance, credited>>

\* ------------------------------------------------- POST /api/wallet/recharge
RechargeAmounts == {1000}

\* Up to transaction.save(): the file check, the upload, the new document.
WalletRechargeBegin(u, amount, hasFile, uploadOk) ==
    /\ IF ~hasFile
         THEN /\ response' = Response("recharge", u, "", 400)
              /\ UNCHANGED reqs
         ELSE IF ~uploadOk
         THEN /\ response' = Response("recharge", u, "", 500)
              /\ UNCHANGED reqs
         ELSE /\ Cardinality(DOMAIN transactions)
                   + Cardinality({ r \in reqs : r.op = "recharge" }) < MaxTxs
              /\ reqs' = reqs \cup
                   { Req("recharge", u, "", "save",
                         [userId |-> u, type |-> "recharge", amount |-> amount,
                          status |-> "pending", confirmedAt |-> FALSE, confirmedBy |-> ""],
                         {}, 0) }
              /\ response' = NoResponse
    /\ emitted' = {}
    /\ UNCHANGED <<socketVars, orders, driverStats, transactions, balance, credited>>

\* A mutant: the wallet is credited as soon as the request is stored.
WalletRechargeSaveCrediting(r, ok) ==
    /\ r \in reqs /\ r.op = "recharge" /\ r.pc = "save"
    /\ reqs' = reqs \ {r}
    /\ IF ok
         THEN LET id == TxIdSeq[Cardinality(DOMAIN transactions) + 1] IN
              /\ transactions' = MapSet(transactions, id, r.doc)
              /\ balance' = [balance EXCEPT ![r.doc.userId] = @ + r.doc.amount]
              /\ response' = Response("recharge", r.caller, id, 200)
         ELSE /\ response' = Response("recharge", r.caller, "", 500)
              /\ UNCHANGED <<transactions, balance>>
    /\ emitted' = {}
    /\ UNCHANGED <<socketVars, orders, driverStats, credited>>

\* transaction.save() returns.
WalletRechargeSave(r, ok) ==
    /\ r \in reqs /\ r.op = "recharge" /\ r.pc = "save"
    /\ reqs' = reqs \ {r}
    /\ IF ok
         THEN LET id == TxIdSeq[Cardinality(DOMAIN transactions) + 1] IN
              /\ transactions' = MapSet(transactions, id, r.doc)
              /\ response' = Response("recharge", r.caller, id, 200)
         ELSE /\ response' = Response("recharge", r.caller, "", 500)
              /\ UNCHANGED transactions
    /\ emitted' = {}
    /\ UNCHANGED <<socketVars, orders, driverStats, balance, credited>>

\* ------------------------- POST /api/admin/confirm-recharge/:transactionId
Crediting(u) == { r \in reqs : r.op = "confirm-recharge" /\ r.doc.userId = u }

\* Up to transaction.save(): the admin check, the load, the assignments.
ConfirmRechargeBegin(u, t) ==
    /\ IF UserType(u) # "admin"
         THEN /\ response' = Response("confirm-recharge", u, t, 403)
              /\ UNCHANGED reqs
         ELSE IF t \notin DOMAIN transactions
         THEN /\ response' = Response("confirm-recharge", u, t, 404)
              /\ UNCHANGED reqs
         ELSE LET doc == [transactions[t] EXCEPT !.status = "confirmed",
                                                 !.confirmedAt = TRUE,
                                                 !.confirmedBy = u]
              IN /\ balance[doc.userId] + doc.amount * (Cardinality(Crediting(doc.userId)) + 1)
                      <= doc.amount * MaxCredits
                 /\ reqs' = reqs \cup
                      { Req("confirm-recharge", u, t, "save", doc,
                            { f \in {"status", "confirmedBy"} : doc[f] # transactions[t][f] }
                              \cup {"confirmedAt"}, 0) }
                 /\ response' = NoResponse
    /\ emitted' = {}
    /\ UNCHANGED <<socketVars, orders, driverStats, transactions, balance, credited>>

\* transaction.save() returns; the handler goes on to credit the wallet.
ConfirmRechargeSave(r, ok) ==
    /\ r \in reqs /\ r.op = "confirm-recharge" /\ r.pc = "save"
    /\ IF ok
         THEN /\ transactions' = [transactions EXCEPT ![r.id] = ApplySave(@, r.doc, r.mod)]
              /\ reqs' = (reqs \ {r}) \cup {[r EXCEPT !.pc = "credit"]}
              /\ response' = NoResponse
         ELSE /\ reqs' = reqs \ {r}
              /\ response' = Response("confirm-recharge", r.caller, r.id, 500)
              /\ UNCHANGED transactions
    /\ emitted' = {}
    /\ UNCHANGED <<socketVars, orders, driverStats, balance, credited>>

\* User.findByIdAndUpdate($inc balance) returns.
ConfirmRechargeCredit(r, ok) ==
    /\ r \in reqs /\ r.op = "confirm-recharge" /\ r.pc = "credit"
    /\ reqs' = reqs \ {r}
    /\ IF ok
         THEN /\ balance' = [balance EXCEPT ![r.doc.userId] = @ + r.doc.amount]
              /\ credited' = [credited EXCEPT ![r.id] = @ + 1]
              /\ response' = Response("confirm-recharge", r.caller, r.id, 200)
         ELSE /\ response' = Response("confirm-recharge", r.caller, r.id, 500)
              /\ UNCHANGED <<balance, credited>>
    /\ emitted' = {}
    /\ UNCHANGED <<socketVars, orders, driverStats, transactions>>

\* ------------------------------------------------------------------ specs
Init ==
    /\ connected = {}
    /\ nextSocket = 0
    /\ owner = << >>
    /\ driverPositions = << >>
    /\ activeOrders = << >>
    /\ locPending = {}
    /\ chatPending = {}
    /\ userLocation = << >>
    /\ lastReport = << >>
    /\ lastRequest = [o \in OrderIds |-> [track |-> NoSocket, accept |-> NoSocket]]
    /\ emitted = {}
    /\ orders = << >>
    /\ driverStats = [d \in Drivers |-> [totalTrips |-> 0, totalKm |-> 0]]
    /\ transactions = << >>
    /\ balance = [u \in Users |-> 0]
    /\ credited = [t \in TxIds |-> 0]
    /\ reqs = {}
    /\ response = NoResponse

\* io.on('connection') for any user's app.
ConnectSteps == \E u \in Users : Connect(u)

\* The Position Registry under the reports of the drivers' apps.  The handlers
\* never read who opened a socket, so every socket is opened by one driver.
NextRegistry ==
    \/ Connect("d1")
    \/ \E s \in Sockets : Disconnect(s)
    \/ \E s \in Sockets, d \in Drivers, data \in Reports :
         \E sampled \in (IF d \in SampledDrivers THEN BOOLEAN ELSE {FALSE}) :
           DriverLocation(s, d, data, sampled)
    \/ \E p \in locPending, ok \in BOOLEAN : LocationWriteDone(p, ok)

SpecRegistry == Init /\ [][NextRegistry]_vars

NextSession ==
    \/ ConnectSteps
    \/ \E s \in Sockets : Disconnect(s)
    \/ \E s \in Sockets, o \in OrderIds, c \in Clients : OrderTrack(s, o, c)
    \/ \E s \in Sockets, o \in OrderIds, d \in Drivers : DriverAcceptOrder(s, o, d)

SpecSession == Init /\ [][NextSession]_vars

\* The order one client places in the order specifications: a transport from
\* one place to another 12.34 km away, with the available vehicle or the other.
Pickup == [lat |-> 100, lon |-> 200]
Dropoff == [lat |-> 1334, lon |-> 200]

\* A new request is taken up while fewer than n handlers are suspended.
Accepting(n) == Cardinality(reqs) < n

\* A completion of an order is requested while the trips counted for its
\* driver, with those being counted, are fewer than n.
TripsBelow(o, status, n) ==
    (status = "completed" /\ o \in DOMAIN orders)
      => driverStats[orders[o].driverId].totalTrips
           + Cardinality(Completing(orders[o].driverId)) < n

\* An order is placed while fewer than n orders are stored or being created.
Creatable(n) == Cardinality(DOMAIN orders) + Cardinality(Creating) < n

CreateOrderSteps ==
    \/ \E r \in reqs : CreateOrderCount(r)
    \/ \E r \in reqs, ok \in BOOLEAN : CreateOrderInsert(r, ok)

NextLifecycle ==
    \/ /\ Accepting(MaxInflight) /\ Creatable(MaxOrders)
       /\ \E u \in Clients, v \in Vehicles : CreateOrderBegin(u, v, "transport", Pickup, Dropoff)
    \/ CreateOrderSteps
    \/ /\ Accepting(MaxInflight)
       /\ \E u \in Users, o \in OrderIds, accept \in BOOLEAN : RespondBegin(u, o, accept)
    \/ \E r \in reqs, ok \in BOOLEAN : RespondSave(r, ok)
    \/ /\ Accepting(MaxInflight)
       /\ \E u \in Users, o \in OrderIds, status \in RequestedStatuses :
            TripsBelow(o, status, MaxTrips) /\ StatusBegin(u, o, status)
    \/ \E r \in reqs, ok \in BOOLEAN : StatusInc(r, ok)
    \/ \E r \in reqs, ok \in BOOLEAN : StatusSave(r, ok)

SpecLifecycle == Init /\ [][NextLifecycle]_vars

NextPayment ==
    \/ /\ Accepting(MaxInflight) /\ Creatable(MaxOrders)
       /\ \E u \in Clients, v \in Vehicles : CreateOrderBegin(u, v, "transport", Pickup, Dropoff)
    \/ CreateOrderSteps
    \/ /\ Accepting(MaxInflight)
       /\ \E u \in Users, o \in OrderIds, hasFile \in BOOLEAN, uploadOk \in BOOLEAN :
            PaymentProofBegin(u, o, hasFile, uploadOk, "mm-1")
    \/ \E r \in reqs, ok \in BOOLEAN : PaymentProofSave(r, ok)
    \/ /\ Accepting(MaxInflight)
       /\ \E u \in Users, o \in OrderIds : ConfirmPaymentBegin(u, o)
    \/ \E r \in reqs, ok \in BOOLEAN : ConfirmPaymentSave(r, ok)

SpecPayment == Init /\ [][NextPayment]_vars

NextWallet ==
    \/ /\ Accepting(MaxInflight)
       /\ \E u \in Users, amount \in RechargeAmounts, hasFile \in BOOLEAN, uploadOk \in BOOLEAN :
            WalletRechargeBegin(u, amount, hasFile, uploadOk)
    \/ \E r \in reqs, ok \in BOOLEAN : WalletRechargeSave(r, ok)
    \/ /\ Accepting(MaxInflight)
       /\ \E u \in Users, t \in TxIds : ConfirmRechargeBegin(u, t)
    \/ \E r \in reqs, ok \in BOOLEAN : ConfirmRechargeSave(r, ok)
    \/ \E r \in reqs, ok \in BOOLEAN : ConfirmRechargeCredit(r, ok)

SpecWallet == Init /\ [][NextWallet]_vars

\* The two confirmations, requested by any user: of the payment of the first
\* order, whose client may have submitted a proof, and of a recharge that
\* driver d1 requested.
NextAdmin ==
    \/ /\ Accepting(MaxInflight) /\ Creatable(MaxOrders)
       /\ CreateOrderBegin("c1", "v1", "transport", Pickup, Dropoff)
    \/ CreateOrderSteps
    \/ Accepting(MaxInflight) /\ PaymentProofBegin("c1", "o1", TRUE, TRUE, "mm-1")
    \/ \E r \in reqs : PaymentProofSave(r, TRUE)
    \/ /\ Accepting(MaxInflight)
       /\ \E u \in Users : ConfirmPaymentBegin(u, "o1")
    \/ \E r \in reqs, ok \in BOOLEAN : ConfirmPaymentSave(r, ok)
    \/ /\ Accepting(MaxInflight)
       /\ \E amount \in RechargeAmounts : WalletRechargeBegin("d1", amount, TRUE, TRUE)
    \/ \E r \in reqs : WalletRechargeSave(r, TRUE)
    \/ /\ Accepting(MaxInflight)
       /\ \E u \in Users, t \in TxIds : ConfirmRechargeBegin(u, t)
    \/ \E r \in reqs, ok \in BOOLEAN : ConfirmRechargeSave(r, ok)
    \/ \E r \in reqs, ok \in BOOLEAN : ConfirmRechargeCredit(r, ok)

SpecAdmin == Init /\ [][NextAdmin]_vars

\* The sessions of orders that are in the durable store: an order is placed
\* for driver d1's vehicle, and any user's app may connect and send
\* driver:accept_order or order:track with any order id.
NextBinding ==
    \/ /\ Accepting(MaxInflight) /\ Creatable(MaxOrders)
       /\ \E u \in Clients : CreateOrderBegin(u, "v1", "transport", Pickup, Dropoff)
    \/ CreateOrderSteps
    \/ ConnectSteps
    \/ \E s \in Sockets, o \in OrderIds, c \in Clients : OrderTrack(s, o, c)
    \/ \E s \in Sockets, o \in OrderIds, d \in Drivers : DriverAcceptOrder(s, o, d)

SpecBinding == Init /\ [][NextBinding]_vars

\* The tracking of driver d1 by a client: the two apps connect and bind
\* sessions, and the driver's app reports its location.
TrackingUsers == {"c1", "d1"}

NextTracking ==
    \/ \E u \in TrackingUsers : Connect(u)
    \/ \E s \in Sockets, o \in OrderIds : OrderTrack(s, o, "c1")
    \/ \E s \in Sockets, o \in OrderIds : DriverAcceptOrder(s, o, "d1")
    \/ \E s \in Sockets, data \in Reports, sampled \in BOOLEAN :
         DriverLocation(s, "d1", data, sampled)
    \/ \E p \in locPending, ok \in BOOLEAN : LocationWriteDone(p, ok)

SpecTracking == Init /\ [][NextTracking]_vars

\* The chat of the two parties of an order: an order is placed for driver d1's
\* vehicle, the two apps connect, bind sessions and send messages with the
\* id of the stored order or of an order that is not in the store.
ChatUsers == {"c1", "d1"}
ChatData ==
    { [orderId |-> o, senderId |-> u, senderType |-> UserType(u), message |-> "hello"]
        : o \in OrderIds, u \in ChatUsers }

NextChat ==
    \/ /\ Accepting(MaxInflight) /\ Creatable(MaxOrders)
       /\ \E u \in Clients : CreateOrderBegin(u, "v1", "transport", Pickup, Dropoff)
    \/ CreateOrderSteps
    \/ \E u \in ChatUsers : Connect(u)
    \/ \E s \in Sockets, o \in OrderIds : OrderTrack(s, o, "c1")
    \/ \E s \in Sockets, o \in OrderIds : DriverAcceptOrder(s, o, "d1")
    \/ \E s \in Sockets, data \in ChatData : Chatting(MaxChats, data) /\ ChatMessage(s, data)
    \/ \E p \in chatPending, ok \in BOOLEAN : ChatFound(p, ok)
    \/ \E p \in chatPending, ok \in BOOLEAN : ChatSaved(p, ok)

SpecChat == Init /\ [][NextChat]_vars

\* Concurrent order creations: requests placed while another is suspended.
MaxRacing == 2

\* One client places a transport and a day rental with the available vehicle,
\* whose driver's app may be connected and reporting (order:new goes to the
\* socket of the driver's registry entry); the store does not fail, so that
\* only the interleaving decides an outcome.
NextCreation ==
    \/ Connect("d1")
    \/ \E s \in Sockets, data \in Reports : DriverLocation(s, "d1", data, FALSE)
    \/ /\ Accepting(MaxRacing) /\ Creatable(MaxRacing)
       /\ \E u \in Clients, serviceType \in {"transport", "location_jour"} :
            CreateOrderBegin(u, "v1", serviceType, Pickup, Dropoff)
    \/ \E r \in reqs : CreateOrderCount(r)
    \/ \E r \in reqs : CreateOrderInsert(r, TRUE)

SpecCreation == Init /\ [][NextCreation]_vars

\* The message log of the first order: messages of its client and of its
\* driver come in over the connections of one app, also while the other's
\* message is being saved, and the driver sets the order in transit; every
\* store operation succeeds.
LogData ==
    { [orderId |-> "o1", senderId |-> u, senderType |-> UserType(u), message |-> "hello"]
        : u \in ChatUsers }

NextLog ==
    \/ /\ Accepting(MaxInflight) /\ Creatable(MaxOrders)
       /\ CreateOrderBegin("c1", "v1", "transport", Pickup, Dropoff)
    \/ CreateOrderSteps
    \/ Connect("c1")
    \/ \E s \in Sockets, data \in LogData : Chatting(MaxRacing, data) /\ ChatMessage(s, data)
    \/ \E p \in chatPending : ChatFound(p, TRUE)
    \/ \E p \in chatPending : ChatSaved(p, TRUE)
    \/ Accepting(MaxInflight) /\ StatusBegin("d1", "o1", "in_transit")
    \/ \E r \in reqs : StatusSave(r, TRUE)

SpecLog == Init /\ [][NextLog]_vars

\* The registry over the connections of a driver's app: it connects, reports
\* under either driver's id and disconnects, while a client places orders for
\* d1's vehicle.
NextPresence ==
    \/ Connect("d1")
    \/ \E s \in Sockets : Disconnect(s)
    \/ \E s \in Sockets, d \in Drivers, data \in Reports : DriverLocation(s, d, data, FALSE)
    \/ /\ Accepting(MaxInflight) /\ Creatable(MaxOrders)
       /\ CreateOrderBegin("c1", "v1", "transport", Pickup, Dropoff)
    \/ CreateOrderSteps

SpecPresence == Init /\ [][NextPresence]_vars

\* Places of an order request: a pickup on the equator, a dropoff 0.05 km
\* from Pickup, and a request without dropoff coordinates.
EquatorPickup == [lat |-> 0, lon |-> 200]
NearDropoff == [lat |-> 105, lon |-> 200]
NoDropoff == [lat |-> Undef, lon |-> Undef]

\* The pricing of orders: clients order d1's vehicles, registered with
\* different prices, for transport or by the hour, between different places.
NextPricing ==
    \/ Connect("d1")
    \/ \E s \in Sockets, data \in Reports : DriverLocation(s, "d1", data, FALSE)
    \/ /\ Accepting(MaxInflight) /\ Creatable(MaxOrders)
       /\ \E u \in Clients, v \in {"v1", "v3", "v4"},
             serviceType \in {"transport", "location_heure"},
             pickup \in {Pickup, EquatorPickup},
             dropoff \in {Dropoff, NearDropoff, NoDropoff} :
            CreateOrderBegin(u, v, serviceType, pickup, dropoff)
    \/ CreateOrderSteps

SpecPricing == Init /\ [][NextPricing]_vars

\* The dispatch of an order to driver d1: the order is placed, the driver's
\* app connects, answers over HTTP and joins the order over its socket.
NextDispatch ==
    \/ /\ Accepting(MaxInflight) /\ Creatable(MaxOrders)
       /\ \E u \in Clients : CreateOrderBegin(u, "v1", "transport", Pickup, Dropoff)
    \/ CreateOrderSteps
    \/ Connect("d1")
    \/ /\ Accepting(MaxInflight)
       /\ \E o \in OrderIds, accept \in BOOLEAN : RespondBegin("d1", o, accept)
    \/ \E r \in reqs, ok \in BOOLEAN : RespondSave(r, ok)
    \/ \E s \in Sockets, o \in OrderIds, d \in Drivers : DriverAcceptOrder(s, o, d)

SpecDispatch == Init /\ [][NextDispatch]_vars

\* What happens to the first order once it is priced: the client submits a
\* payment proof, the administrator confirms it, the driver sets the order
\* in transit, and the client writes in its chat from its first
\* connection; every store operation succeeds.
NextAmounts ==
    \/ /\ Accepting(MaxInflight) /\ Creatable(MaxOrders)
       /\ CreateOrderBegin("c1", "v1", "transport", Pickup, Dropoff)
    \/ CreateOrderSteps
    \/ Accepting(MaxInflight) /\ PaymentProofBegin("c1", "o1", TRUE, TRUE, "mm-1")
    \/ \E r \in reqs : PaymentProofSave(r, TRUE)
    \/ Accepting(MaxInflight) /\ ConfirmPaymentBegin("adm", "o1")
    \/ \E r \in reqs : ConfirmPaymentSave(r, TRUE)
    \/ Accepting(MaxInflight) /\ StatusBegin("d1", "o1", "in_transit")
    \/ \E r \in reqs : StatusSave(r, TRUE)
    \/ Connect("c1")
    \/ \E data \in {[orderId |-> "o1", senderId |-> "c1", senderType |-> "client",
                      message |-> "hello"]} :
         Chatting(MaxChats, data) /\ ChatMessage(1, data)
    \/ \E p \in chatPending : ChatFound(p, TRUE)
    \/ \E p \in chatPending : ChatSaved(p, TRUE)

SpecAmounts == Init /\ [][NextAmounts]_vars

\* Completions of one order that reach the driver's statistics.
MaxCompletions == 3

\* The completion of orders for driver d1's vehicle: tracked points come
\* into the store, and the driver sets the order to completed, once or again,
\* also while an earlier request is still suspended.
NextCompletion ==
    \/ /\ Accepting(MaxInflight) /\ Creatable(MaxOrders)
       /\ \E u \in Clients : CreateOrderBegin(u, "v1", "transport", Pickup, Dropoff)
    \/ CreateOrderSteps
    \/ \E o \in OrderIds, point \in TrackPoints : StoreTrackingPoint(o, point)
    \/ /\ Accepting(MaxRacing)
       /\ \E o \in OrderIds :
            TripsBelow(o, "completed", MaxCompletions) /\ StatusBegin("d1", o, "completed")
    \/ \E r \in reqs, ok \in BOOLEAN : StatusInc(r, ok)
    \/ \E r \in reqs, ok \in BOOLEAN : StatusSave(r, ok)

SpecCompletion == Init /\ [][NextCompletion]_vars

\* The order routes that write the status, called by the drivers and the
\* administrator on orders for driver d1's vehicle, with the completion of the
\* transport as the target of a status update (the path with two awaits).
AuthorityStatuses == {"completed"}

AuthorityCallers == Drivers \cup Admins

NextAuthority ==
    \/ /\ Accepting(MaxInflight) /\ Creatable(MaxOrders)
       /\ \E u \in Clients : CreateOrderBegin(u, "v1", "transport", Pickup, Dropoff)
    \/ CreateOrderSteps
    \/ /\ Accepting(MaxInflight)
       /\ \E u \in AuthorityCallers, o \in OrderIds, accept \in BOOLEAN : RespondBegin(u, o, accept)
    \/ \E r \in reqs, ok \in BOOLEAN : RespondSave(r, ok)
    \/ /\ Accepting(MaxInflight)
       /\ \E u \in AuthorityCallers, o \in OrderIds, status \in AuthorityStatuses :
            TripsBelow(o, status, MaxTrips) /\ StatusBegin(u, o, status)
    \/ \E r \in reqs, ok \in BOOLEAN : StatusInc(r, ok)
    \/ \E r \in reqs, ok \in BOOLEAN : StatusSave(r, ok)

SpecAuthority == Init /\ [][NextAuthority]_vars

Next ==
    NextRegistry \/ NextSession \/ NextBinding \/ NextDispatch \/ NextCompletion
    \/ NextTracking \/ NextChat \/ NextLog \/ NextCreation \/ NextPresence \/ NextPricing \/ NextAmounts
    \/ NextLifecycle
    \/ NextAuthority \/ NextPayment \/ NextWallet \/ NextAdmin

Spec == Init /\ [][Next]_vars

\* ------------------------------------------------------------- properties
HasSession(o) == SessionIndex(activeOrders, o) # 0
Session(o) == activeOrders[SessionIndex(activeOrders, o)]

\* C1: once a client handle is attached to the session of an order id, a step
\* that handles a driver:accept_order for that order id leaves the client handle
\* as it was.  (Only order:track and driver:accept_order write a session, so a
\* step that handles no new order:track keeps an attached client handle.)
C1_AcceptKeepsClientHandle ==
    [][\A o \in OrderIds :
         ( /\ HasSession(o)
           /\ Session(o).clientSocketId # NoSocket
           /\ lastRequest'[o].track = lastRequest[o].track )
           => /\ SessionIndex(activeOrders', o) # 0
              /\ activeOrders'[SessionIndex(activeOrders', o)].clientSocketId
                   = Session(o).clientSocketId]_vars

\* C2: for every order id for which an order:track (from connection C) and a
\* driver:accept_order (from connection D) have both been handled, in whichever
\* order, the session holds client handle C and driver handle D.
C2_TrackAndAcceptCommute ==
    \A o \in OrderIds :
      (lastRequest[o].track # NoSocket /\ lastRequest[o].accept # NoSocket)
        => /\ HasSession(o)
           /\ Session(o).clientSocketId = lastRequest[o].track
           /\ Session(o).driverSocketId = lastRequest[o].accept

\* C3: a step that handles an order:track for an order id without a session
\* leaves a session for that order id whose client handle is the requesting
\* socket and whose driver id and driver handle are empty.
C3_TrackCreatesSession ==
    [][\A o \in OrderIds :
         (~HasSession(o) /\ lastRequest'[o].track # lastRequest[o].track)
           => /\ SessionIndex(activeOrders', o) # 0
              /\ LET created == activeOrders'[SessionIndex(activeOrders', o)] IN
                   /\ created.clientSocketId = lastRequest'[o].track
                   /\ created.driverSocketId = NoSocket
                   /\ created.driverId \notin Drivers]_vars

\* C4: in the step in which connection H closes, every Position Registry entry
\* whose socketId is H becomes the same entry with isOnline false, every other
\* entry is unchanged, and no entry is added or removed.
C4_DisconnectMarksOnlyItsEntries ==
    [][\A h \in connected \ connected' :
         /\ DOMAIN driverPositions' = DOMAIN driverPositions
         /\ \A d \in DOMAIN driverPositions :
              driverPositions'[d] =
                IF driverPositions[d].socketId = h
                  THEN [driverPositions[d] EXCEPT !.isOnline = FALSE]
                  ELSE driverPositions[d]]_vars

\* C4 witness: connection H has closed and took offline a driver whose last
\* report said online, while a driver who first reported on H and has since
\* reported from a newer, still open connection is online.
C4_Witness ==
    \E a, b \in DOMAIN driverPositions :
      /\ a # b
      /\ driverPositions[a].socketId \notin connected
      /\ lastReport[a].data.isOnline # "false"
      /\ ~driverPositions[a].isOnline
      /\ driverPositions[b].socketId \in connected
      /\ driverPositions[b].socketId > driverPositions[a].socketId
      /\ driverPositions[b].isOnline

\* C5 as stated: the entry of a driver holds, field by field, what the last
\* report of that driver carried (every field the report carried), and the
\* socket it came from.
C5_EntryIsLastReportVerbatim ==
    \A d \in DOMAIN lastReport :
      /\ d \in DOMAIN driverPositions
      /\ LET e == driverPositions[d]
             r == lastReport[d].data
         IN /\ e.lat = r.lat
            /\ e.lon = r.lon
            /\ r.speed # Undef => e.speed = r.speed
            /\ r.heading # Undef => e.heading = r.heading
            /\ r.battery # Undef => e.battery = r.battery
            /\ e.socketId = lastReport[d].socketId

\* C5 amended: the entry of a driver holds the lat, lon and socket of the last
\* report of that driver, its speed and heading with 0 for a missing one, and
\* its battery with 100 for a missing or zero one; nothing of an earlier report.
C5_EntryIsLastReport ==
    \A d \in DOMAIN lastReport :
      /\ d \in DOMAIN driverPositions
      /\ LET e == driverPositions[d]
             r == lastReport[d].data
         IN /\ e.lat = r.lat
            /\ e.lon = r.lon
            /\ e.speed = (IF r.speed = Undef THEN 0 ELSE r.speed)
            /\ e.heading = (IF r.heading = Undef THEN 0 ELSE r.heading)
            /\ e.battery = (IF r.battery = Undef \/ r.battery = 0 THEN 100 ELSE r.battery)
            /\ e.socketId = lastReport[d].socketId

\* C5 witness: a handler of an earlier report of a driver is still suspended on
\* its durable write while a later, different report of that driver and a
\* report of another driver have been stored.
C5_Witness ==
    \E p \in locPending :
      /\ ~p.inMap
      /\ lastReport[p.driverId].data # p.data
      /\ lastReport[p.driverId].socketId # p.socketId
      /\ \E d \in DOMAIN driverPositions : d # p.driverId

\* C6: however often confirm-recharge is invoked on a wallet transaction, the
\* owner's balance is incremented on its account at most once (and so by its
\* amount exactly once in total).
C6_RechargeCreditedOnce ==
    \A t \in DOMAIN transactions : credited[t] <= 1

ConfirmInFlight(t) == \E r \in reqs : r.op = "confirm-recharge" /\ r.id = t

\* C7: a wallet transaction is not durably confirmed with the owner's balance
\* not incremented for it; stated for the states in which no confirm-recharge
\* of the transaction is still running, so that only a lasting gap counts.
C7_ConfirmedImpliesCredited ==
    \A t \in DOMAIN transactions :
      (transactions[t].status = "confirmed" /\ ~ConfirmInFlight(t)) => credited[t] >= 1

\* The order status graph of the lifecycle: the main line, and cancelled and
\* disputed from every state that is not terminal.
Successors(status) ==
    ( CASE status = "pending" -> {"accepted"}
        [] status = "accepted" -> {"driver_coming"}
        [] status = "driver_coming" -> {"loading"}
        [] status = "loading" -> {"in_transit"}
        [] status = "in_transit" -> {"unloading"}
        [] status = "unloading" -> {"completed"}
        [] OTHER -> {} )
    \cup (IF status \in {"completed", "cancelled"} THEN {}
          ELSE {"cancelled", "disputed"} \ {status})

\* C8: a step that answers a status-update request changes the durable status
\* of the order only to a successor of its current status in the graph; any
\* other target is rejected and the status stays.
C8_StatusUpdateFollowsGraph ==
    [][\A o \in DOMAIN orders :
         (response'.op = "status" /\ response'.id = o /\ orders'[o].status # orders[o].status)
           => orders'[o].status \in Successors(orders[o].status)]_vars

\* C9: once the durable status of an order is completed or cancelled, no step
\* changes it.
C9_TerminalStatusIsFinal ==
    [][\A o \in DOMAIN orders :
         orders[o].status \in {"completed", "cancelled"}
           => orders'[o].status = orders[o].status]_vars

PaymentEdges ==
    { <<"pending", "proof_submitted">>, <<"proof_submitted", "confirmed">>,
      <<"confirmed", "paid_to_driver">>, <<"confirmed", "refunded">> }

\* C10: every change of the payment status of an order follows an edge of
\* pending -> proof_submitted -> confirmed -> paid_to_driver, confirmed -> refunded.
C10_PaymentStatusFollowsEdges ==
    [][\A o \in DOMAIN orders :
         orders'[o].payStatus # orders[o].payStatus
           => <<orders[o].payStatus, orders'[o].payStatus>> \in PaymentEdges]_vars

\* The payment-proof fields of an order document.
ProofFields == {"payStatus", "proofImage", "proofTransactionId", "proofSubmittedAt"}

\* C11: a payment-proof request on an existing order by a caller who is not
\* the order's client never gets past the ownership check (no handler of it is
\* left suspended on a save), and the step that answers it answers 403 and
\* leaves the order's payment status and proof fields as they were.
C11_ProofByNonClientRejected ==
    [][\A u \in Users, o \in DOMAIN orders :
         orders[o].clientId # u =>
           /\ \A r \in reqs' : ~(r.op = "proof" /\ r.caller = u /\ r.id = o)
           /\ (response'.op = "proof" /\ response'.caller = u /\ response'.id = o)
                => /\ response'.code = 403
                   /\ \A f \in ProofFields : orders'[o][f] = orders[o][f]]_vars

C11_Witness ==
    /\ response.op = "proof" /\ response.code = 403
    /\ response.id \in DOMAIN orders
    /\ orders[response.id].clientId # response.caller
    /\ orders[response.id].payStatus = "proof_submitted"

\* The callers who may change the status of an order with an operation.
MayChangeStatus(op, u, order) ==
    \/ op \in {"respond", "status"} /\ u = order.driverId
    \/ op = "status" /\ UserType(u) = "admin"

\* C12: a step changes the durable status of an order only by answering a
\* respond or status-update request of the order's driver or a status-update
\* request of an administrator; a respond or status-update request of any
\* other caller is never left suspended, is answered 403 with the order as it
\* was, and every status event of the order comes from a permitted caller.
C12_StatusChangedByDriverOrAdmin ==
    [][\A o \in DOMAIN orders :
         /\ orders'[o].status # orders[o].status
              => /\ response'.id = o
                 /\ MayChangeStatus(response'.op, response'.caller, orders[o])
         /\ \A r \in reqs' : (r.op \in {"respond", "status"} /\ r.id = o)
                                => MayChangeStatus(r.op, r.caller, orders[o])
         /\ ( /\ response'.op \in {"respond", "status"} /\ response'.id = o
              /\ ~MayChangeStatus(response'.op, response'.caller, orders[o]) )
              => /\ response'.code = 403
                 /\ orders'[o] = orders[o]
                 /\ \A e \in emitted' : ~(e.event = "order:status" /\ e.orderId = o)
         /\ \A e \in emitted' : (e.event = "order:status" /\ e.orderId = o)
              => \/ \E r \in reqs' : r.op = "respond" /\ r.id = o /\ r.caller = orders[o].driverId
                 \/ /\ response'.op = "status" /\ response'.id = o /\ response'.code = 200
                    /\ MayChangeStatus("status", response'.caller, orders[o])]_vars

\* A respond or status-update request of a caller who may not change the
\* status has been refused on an order that the driver has moved along.
C12_Witness ==
    /\ response.op \in {"respond", "status"} /\ response.code = 403
    /\ response.id \in DOMAIN orders
    /\ ~MayChangeStatus(response.op, response.caller, orders[response.id])
    /\ orders[response.id].status = "accepted"

\* C13: the driver handle of the session of a stored order is a socket opened
\* by the order's assigned driver, and its client handle, when one is attached,
\* is a socket opened by the order's client.
C13_HandlesBelongToParties ==
    \A i \in 1..Len(activeOrders) :
      LET session == activeOrders[i] IN
        session.orderId \in DOMAIN orders =>
          /\ owner[session.driverSocketId] = orders[session.orderId].driverId
          /\ session.clientSocketId # NoSocket
               => owner[session.clientSocketId] = orders[session.orderId].clientId

ChatEvents(events) == { e \in events : e.event = "chat:new_message" }

\* C14: when a step delivers a chat message, the message is in the durable
\* message log of its order.
C14_DeliveredChatIsRecorded ==
    [][\A e \in ChatEvents(emitted') :
         /\ e.orderId \in DOMAIN orders'
         /\ \E i \in 1..Len(orders'[e.orderId].messages) :
              orders'[e.orderId].messages[i] = MessageEntry(e)]_vars

\* The session handle of a role, null if the order id has no session.
RoleHandle(sessions, orderId, role) ==
    IF SessionIndex(sessions, orderId) = 0 THEN NoSocket
    ELSE IF role = "driver" THEN sessions[SessionIndex(sessions, orderId)].driverSocketId
    ELSE sessions[SessionIndex(sessions, orderId)].clientSocketId

OppositeRole(role) == IF role = "client" THEN "driver" ELSE "client"

\* C15: a step delivers a chat message to at most one socket, the session
\* handle of the role opposite to the sender's, which is not null and is not
\* the session handle of the sender's own role.
C15_ChatGoesToCounterpartOnly ==
    [][/\ Cardinality(ChatEvents(emitted')) <= 1
       /\ \A e \in ChatEvents(emitted') :
            /\ e.socketId # NoSocket
            /\ e.socketId = RoleHandle(activeOrders, e.orderId, OppositeRole(e.senderType))
            /\ e.socketId # RoleHandle(activeOrders, e.orderId, e.senderType)]_vars

\* The sessions of a driver that have a client handle attached.
TrackedSessions(d) ==
    { i \in 1..Len(activeOrders) :
        activeOrders[i].driverId = d /\ activeOrders[i].clientSocketId # NoSocket }

\* C16: a step that broadcasts a driver's report also delivers a driver-position
\* event to the client handle of every session of that driver that has one,
\* and every driver-position event it emits is addressed to a socket that is
\* the client handle of a session of the reporting driver, never to null.
C16_DriverLocationReachesSessionClient ==
    [][/\ \A b \in emitted' :
            (b.event = "drivers:update" /\ b.scope = "others")
              => \A i \in TrackedSessions(b.driverId) :
                   \E e \in emitted' :
                     /\ e.event = "order:driver_location"
                     /\ e.orderId = activeOrders[i].orderId
                     /\ e.socketId = activeOrders[i].clientSocketId
       /\ \A e \in emitted' :
            e.event = "order:driver_location"
              => /\ e.socketId # NoSocket
                 /\ \E i \in TrackedSessions(e.driverId) :
                      activeOrders[i].clientSocketId = e.socketId]_vars

\* The broadcasts of location reports among some events.
ReportBroadcasts(events) ==
    { e \in events : e.event = "drivers:update" /\ e.scope = "others" }

\* C17: the outbound events of a location report are emitted before those of
\* a later report on the same socket: a step that takes a report in and
\* broadcasts it at once finds no handler of an earlier report of its socket
\* still suspended on the durable write with its own events not yet emitted.
C17_ReportsEmitInArrivalOrder ==
    [][\A e \in ReportBroadcasts(emitted') :
         Cardinality(locPending') >= Cardinality(locPending)
           => \A p \in locPending : p.socketId # e.socketId]_vars

\* C18: a status event carries a status that is in the durable store: when
\* a step emits it, the order's stored status is the event's.
C18_StatusEventAfterSave ==
    [][\A e \in emitted' :
         e.event = "order:status"
           => /\ e.orderId \in DOMAIN orders'
              /\ orders'[e.orderId].status = e.status]_vars

\* C19: when the sampled durable write of a report returns, with or without
\* a failure, the Position Registry is as it was and the report is broadcast
\* and delivered to the client handle of the driver's session.
C19_FailedSampleStillBroadcast ==
    [][Cardinality(locPending') < Cardinality(locPending)
         => /\ driverPositions' = driverPositions
            /\ \E p \in locPending :
                 emitted' = LocationEmits(p.socketId, p.driverId, p.data, p.position)]_vars

\* C20: no two stored orders have the same orderNumber, and a creation
\* request for an available vehicle is answered with the order persisted.
C20_ConcurrentCreationsAllPersist ==
    /\ \A o, q \in DOMAIN orders :
         orders[o].orderNumber = orders[q].orderNumber => o = q
    /\ response.op = "create" => response.code = 201

\* The statuses of an order that is under way.
ActiveStatuses == {"accepted", "driver_coming", "loading", "in_transit", "unloading"}

\* C21: every stored order whose status is active has a session (the Session
\* Table is keyed by order id, so it has one at most), and that session
\* carries the order's assigned driver id.
C21_ActiveOrderHasItsSession ==
    \A o \in DOMAIN orders :
      orders[o].status \in ActiveStatuses
        => /\ HasSession(o)
           /\ Session(o).driverId = orders[o].driverId

\* C22: once the actual_km of a stored order is set, no step changes it.
C22_ActualKmWrittenOnce ==
    [][\A o \in DOMAIN orders :
         orders[o].actualKm # Undef => orders'[o].actualKm = orders[o].actualKm]_vars

RECURSIVE SumOfLegs(_)
\* The length of a path of tracked points: its first leg and the rest.
SumOfLegs(points) ==
    IF Len(points) < 2 THEN 0
    ELSE (IF points[1].lat >= points[2].lat THEN points[1].lat - points[2].lat
                                             ELSE points[2].lat - points[1].lat)
         + SumOfLegs(Tail(points))

\* The tenth of a km (10 units) nearest to a distance, a half going up.
NearestTenth(c) == CHOOSE t \in 0..(c + 10) : t % 10 = 0 /\ t - 5 <= c /\ c < t + 5

\* The status requests that this step answers with the completion saved.
CompletionsSaved ==
    { r \in reqs \ reqs' :
        /\ r.op = "status" /\ r.pc = "save" /\ r.doc.status = "completed"
        /\ response' = Response("status", r.caller, r.id, 200) }

\* C25: a completion that is saved stores as actual_km the sum of the legs
\* between consecutive points of the tracking sequence it read, in stored
\* order, to the nearest tenth of a km; with fewer than two points it leaves
\* actual_km as it is.
C25_ActualKmIsSumOfLegs ==
    [][\A r \in CompletionsSaved :
         IF Len(r.doc.tracking) >= 2
           THEN orders'[r.id].actualKm = NearestTenth(SumOfLegs(r.doc.tracking))
           ELSE orders'[r.id].actualKm = orders[r.id].actualKm]_vars

\* C23: an order for a vehicle registered with minimum price M and rate R per
\* km costs max(M, D x R) when it is a transport order with both endpoints
\* geolocated, D km apart, and M otherwise, also when M = 0 or R = 0; the
\* platform fee is 15% of the amount rounded to a whole XOF (halves up), and
\* the driver's share is the rest.
PricedAmount(order) ==
    LET M == RegisteredPrices(order.vehicleId).minimumPrice * 100
        R == RegisteredPrices(order.vehicleId).pricePerKm
        D == IF order.pickup.lat >= order.dropoff.lat
               THEN order.pickup.lat - order.dropoff.lat
               ELSE order.dropoff.lat - order.pickup.lat
    IN IF order.serviceType = "transport"
            /\ order.pickup.lat # Undef /\ order.dropoff.lat # Undef
         THEN (IF M >= D * R THEN M ELSE D * R)
         ELSE M

C23_PriceIsMaxOfMinimumAndDistance ==
    \A o \in DOMAIN orders :
      /\ orders[o].amount = PricedAmount(orders[o])
      /\ orders[o].platformFee % 100 = 0
      /\ orders[o].amount * 15 - 5000 < orders[o].platformFee * 100
      /\ orders[o].platformFee * 100 <= orders[o].amount * 15 + 5000
      /\ orders[o].driverShare = orders[o].amount - orders[o].platformFee

\* C24: every stored order's platform fee and driver share add up to its
\* amount, and no step changes a stored order's amount, platform fee or
\* driver share.
SharesAddUp ==
    \A o \in DOMAIN orders :
      orders[o].platformFee + orders[o].driverShare = orders[o].amount

AmountsKept ==
    \A o \in DOMAIN orders :
      /\ o \in DOMAIN orders'
      /\ orders'[o].amount = orders[o].amount
      /\ orders'[o].platformFee = orders[o].platformFee
      /\ orders'[o].driverShare = orders[o].driverShare

C24_SharesAddUpAndAreKept == []SharesAddUp /\ [][AmountsKept]_vars

\* An order priced by distance, with a fee rounded up from 925.5 XOF, after
\* its proof was confirmed, it went in transit and a message was logged.
C24_Witness ==
    \E o \in DOMAIN orders :
      /\ orders[o].amount = 617000 /\ orders[o].platformFee = 92600
      /\ orders[o].payStatus = "confirmed"
      /\ orders[o].status = "in_transit"
      /\ Len(orders[o].messages) > 0

\* C26: an order's payment and a wallet transaction become confirmed only in
\* the save of a confirm request made by an administrator, and then carry
\* that administrator's id; a confirm request by anyone else is answered 403
\* and changes no order, no transaction and no balance; every confirmed
\* record names an administrator as its confirmer.
ConfirmedByAdmin ==
    /\ \A o \in DOMAIN orders :
         orders[o].payStatus = "confirmed" => orders[o].payConfirmedBy \in Admins
    /\ \A t \in DOMAIN transactions :
         transactions[t].status = "confirmed" => transactions[t].confirmedBy \in Admins

ConfirmingStep ==
    /\ \A o \in DOMAIN orders' :
         (orders'[o].payStatus = "confirmed"
            /\ (o \in DOMAIN orders => orders[o].payStatus # "confirmed"))
           => \E r \in reqs \ reqs' :
                /\ r.op = "confirm-payment" /\ r.id = o /\ r.caller \in Admins
                /\ orders'[o].payConfirmedBy = r.caller
    /\ \A t \in DOMAIN transactions' :
         (transactions'[t].status = "confirmed"
            /\ (t \in DOMAIN transactions => transactions[t].status # "confirmed"))
           => \E r \in reqs :
                /\ r.op = "confirm-recharge" /\ r.id = t /\ r.caller \in Admins
                /\ transactions'[t].confirmedBy = r.caller

RejectedConfirmStep ==
    (/\ response' # response
     /\ response'.op \in {"confirm-payment", "confirm-recharge"}
     /\ response'.caller \notin Admins)
      => /\ response'.code = 403
         /\ UNCHANGED <<orders, transactions, balance>>

C26_ConfirmationsOnlyByAdmin ==
    []ConfirmedByAdmin /\ [][ConfirmingStep /\ RejectedConfirmStep]_vars

\* A driver's confirm requests were rejected, and the administrator has
\* confirmed the order's payment and the recharge.
C26_Witness ==
    /\ \E o \in DOMAIN orders :
         orders[o].payStatus = "confirmed" /\ orders[o].payConfirmedBy \in Admins
    /\ \E t \in DOMAIN transactions :
         transactions[t].status = "confirmed" /\ transactions[t].confirmedBy \in Admins
    /\ response.op = "confirm-recharge" /\ response.caller \in Drivers
    /\ response.code = 403

\* C27: a recharge request that is stored adds one transaction, pending and
\* of the caller, and changes no balance; a balance changes only in the
\* crediting step of a confirm-recharge request.
RechargeStored ==
    { r \in reqs \ reqs' :
        r.op = "recharge" /\ response'.op = "recharge" /\ response'.code = 200 }

C27_BalanceChangesOnlyOnConfirm ==
    [][/\ \A r \in RechargeStored :
            /\ \E t \in DOMAIN transactions' \ DOMAIN transactions :
                 /\ transactions'[t].status = "pending"
                 /\ transactions'[t].userId = r.caller
                 /\ DOMAIN transactions' = DOMAIN transactions \cup {t}
            /\ \A t \in DOMAIN transactions : transactions'[t] = transactions[t]
            /\ balance' = balance
       /\ balance' # balance
            => \E r \in reqs \ reqs' : r.op = "confirm-recharge" /\ r.pc = "credit"]_vars

\* Driver d1's recharge request has just been stored, pending, and no
\* wallet holds anything.
C27_Witness ==
    /\ response.op = "recharge" /\ response.code = 200
    /\ \E t \in DOMAIN transactions :
         transactions[t].status = "pending" /\ transactions[t].userId = "d1"
    /\ \A u \in Users : balance[u] = 0

\* C28: no step removes a driver from the Position Registry.
C28_RegistryNeverShrinks ==
    [][DOMAIN driverPositions \subseteq DOMAIN driverPositions']_vars

\* Driver d1 has reported, its socket is closed, an order was placed for its
\* vehicle, and d1 is still in the registry.
C28_Witness ==
    /\ "d1" \in DOMAIN driverPositions
    /\ driverPositions["d1"].socketId \notin connected
    /\ orders # << >>

\* C29: a driver's trip count never exceeds the number of the driver's
\* orders: each order is counted at most once, however often and however
\* concurrently it is set to completed.
C29_TripCountedOncePerOrder ==
    \A d \in Drivers :
      driverStats[d].totalTrips
        <= Cardinality({ o \in DOMAIN orders : orders[o].driverId = d })

\* C30: once no request is suspended, a driver whose statistics count a trip
\* or a distance has an order stored as completed: a completion whose save
\* failed has left the statistics as they were.
C30_StatsOnlyForSavedCompletion ==
    reqs = {} =>
      \A d \in Drivers :
        (driverStats[d].totalTrips > 0 \/ driverStats[d].totalKm > 0)
          => \E o \in DOMAIN orders :
               orders[o].driverId = d /\ orders[o].status = "completed"

\* C31: a respond request that is saved on an order whose status has left
\* pending changes none of its status, acceptedAt, cancelledAt and
\* cancelReason, and no order has both an acceptance timestamp and the
\* cancellation reason of a driver's refusal.
RespondKeepsSettled ==
    \A r \in reqs \ reqs' :
      (r.op = "respond" /\ orders[r.id].status # "pending")
        => /\ orders'[r.id].status = orders[r.id].status
           /\ orders'[r.id].acceptedAt = orders[r.id].acceptedAt
           /\ orders'[r.id].cancelledAt = orders[r.id].cancelledAt
           /\ orders'[r.id].cancelReason = orders[r.id].cancelReason

NeverAcceptedAndRefused ==
    \A o \in DOMAIN orders :
      ~(orders[o].acceptedAt /\ orders[o].cancelReason = "Driver refused")

C31_RespondOnlyOnPending == []NeverAcceptedAndRefused /\ [][RespondKeepsSettled]_vars

\* C32: every Position Registry entry whose online flag is true carries the
\* socket id of a connection that is open.
C32_OnlineEntryHasOpenConnection ==
    \A d \in DOMAIN driverPositions :
      driverPositions[d].isOnline => driverPositions[d].socketId \in connected

\* One driver's entry is online on an open connection while another's, bound
\* to a connection that has closed, is offline.
C32_Witness ==
    \E d, e \in DOMAIN driverPositions :
      /\ driverPositions[d].isOnline /\ driverPositions[d].socketId \in connected
      /\ ~driverPositions[e].isOnline /\ driverPositions[e].socketId \notin connected

\* C33: every driver handle and client handle of the Session Table that is
\* not empty is the socket id of a connection that is open.
C33_SessionHandlesAreOpen ==
    \A o \in DOMAIN activeOrders :
      /\ activeOrders[o].driverSocketId # NoSocket
           => activeOrders[o].driverSocketId \in connected
      /\ activeOrders[o].clientSocketId # NoSocket
           => activeOrders[o].clientSocketId \in connected

\* C34: the save of a chat message appends its entry to the stored log of
\* its order, also when the log has grown since the handler read the order,
\* and every step keeps the entries already in a stored log, in their order.
RECURSIVE IsPrefix(_, _)
IsPrefix(a, b) ==
    IF a = << >> THEN TRUE
    ELSE IF b = << >> THEN FALSE
    ELSE Head(a) = Head(b) /\ IsPrefix(Tail(a), Tail(b))

C34_MessageLogIsAppendOnly ==
    [][/\ \A p \in chatPending \ chatPending' :
            p.pc = "save" =>
              /\ Len(orders'[p.data.orderId].messages)
                   = Len(orders[p.data.orderId].messages) + 1
              /\ orders'[p.data.orderId].messages[Len(orders'[p.data.orderId].messages)].senderId
                   = p.data.senderId
       /\ \A o \in DOMAIN orders :
            o \in DOMAIN orders' /\ IsPrefix(orders[o].messages, orders'[o].messages)]_vars

\* The client's message is in the log while the driver's handler, which read
\* the order when its log was empty, is about to save.
C34_Witness ==
    \E p \in chatPending :
      /\ p.pc = "save" /\ p.log = << >> /\ p.data.senderId = "d1"
      /\ p.data.orderId \in DOMAIN orders
      /\ Len(orders[p.data.orderId].messages) = 1
      /\ orders[p.data.orderId].messages[1].senderId = "c1"

=============================================================================
